---- MODULE Spec2Model ----
(***************************************************************************)
(* Model of the FrameMatch front end (uvajed/shottool).                    *)
(*                                                                         *)
(* Four components, each with a specification of its own; the variables   *)
(* of the other components rest at their initial values.                   *)
(*   Spec         ColorPanel.downloadLUT                                   *)
(*   LoadingSpec  LoadingAnalysis and its two interval timers              *)
(*   AppSpec      App: uploads, resets and the analysis requests           *)
(*   PanelSpec    the lists and paths CameraPanel and ColorPanel render    *)
(*                                                                         *)
(* ColorPanel.downloadLUT builds a .cube 3D lookup table from the colour   *)
(* analysis it was rendered with.  The handler is one action; its loop     *)
(* body is a chain of operators, one per step of the source.  The state   *)
(* is the data the panel shows, the text of the last file generated and    *)
(* the number of files handed to the browser.                              *)
(*                                                                         *)
(* Numbers.  The source computes in IEEE doubles.  The model computes the  *)
(* same expressions exactly, over the rationals, and adds the one special  *)
(* value the source can produce, NaN (0/0).  For one grid point every      *)
(* channel value is  a/(320*e) + t/640000  with integers a, t and          *)
(* e = (x2-x1) * (16000*luminance): the tone curve and temperature steps   *)
(* change a, the tint steps change t.  All intermediate integers stay      *)
(* below 2^31.  toFixed(6) rounds the exact value half up to millionths;   *)
(* the double the source holds differs from it by a few 1e-16.             *)
(*                                                                         *)
(* Strings are sequences of one-character strings, so that toLowerCase     *)
(* and includes are computed, character by character.                      *)
(***************************************************************************)
EXTENDS Integers, Sequences, FiniteSets, TLC

VARIABLES
  \* ColorPanel
  data, lutContent, downloads,
  \* LoadingAnalysis
  mounted, currentStep, elapsedTime, stepTicks,
  \* App
  image, imagePreview, analysisResult, isAnalyzing, error,
  showDonationPrompt, localStorage, requests, uploads, promptTimers,
  \* CameraPanel, and the tone curve ColorPanel draws
  camera, items, curvePath

lutVars == <<data, lutContent, downloads>>

loadingVars == <<mounted, currentStep, elapsedTime, stepTicks>>

appVars ==
  <<image, imagePreview, analysisResult, isAnalyzing, error,
    showDonationPrompt, localStorage, requests, uploads, promptTimers>>

panelVars == <<camera, items, curvePath>>

vars == <<lutVars, loadingVars, appVars, panelVars>>

----------------------------------------------------------------------------
(* Bounds *)

\* control points of a tone curve
MaxCurveLen == 3

\* clicks on the Download LUT button in one behaviour
MaxDownloads == 2

\* ticks of the 800 ms interval of LoadingAnalysis in one behaviour
MaxStepTicks == 8

\* ticks of the 100 ms interval of LoadingAnalysis in one behaviour
MaxTimeTicks == 60

\* images uploaded in one behaviour
MaxUploads == 3

\* control points of a tone curve drawn by ColorPanel
MaxPathLen == 3

----------------------------------------------------------------------------
(* JavaScript values *)

Undefined == [defined |-> FALSE, v |-> <<>>]

Some(x) == [defined |-> TRUE, v |-> x]

Null == [present |-> FALSE]

UpperCase == <<"A","B","C","D","E","F","G","H","I","J","K","L","M",
               "N","O","P","Q","R","S","T","U","V","W","X","Y","Z">>

LowerCase == <<"a","b","c","d","e","f","g","h","i","j","k","l","m",
               "n","o","p","q","r","s","t","u","v","w","x","y","z">>

toLowerCaseChar(c) ==
  IF \E i \in 1..26 : UpperCase[i] = c
    THEN LowerCase[CHOOSE i \in 1..26 : UpperCase[i] = c]
    ELSE c

toLowerCase(s) == [i \in 1..Len(s) |-> toLowerCaseChar(s[i])]

includes(s, sub) ==
  \E i \in 1..(Len(s) - Len(sub) + 1) : SubSeq(s, i, i + Len(sub) - 1) = sub

\* str?.toLowerCase().includes(sub): undefined (falsy) when str is undefined
lowerIncludes(str, sub) == str.defined /\ includes(toLowerCase(str.v), sub)

----------------------------------------------------------------------------
(* The colour analysis ColorPanel is rendered with *)

Str(s) == Some(s)

\* 'Warm'
sWarm == <<"W","a","r","m">>

\* 'Lifted, Teal tint'
sLiftedTealTint ==
  <<"L","i","f","t","e","d",","," ","T","e","a","l"," ","t","i","n","t">>

\* 'Warm, Orange push'
sWarmOrangePush ==
  <<"W","a","r","m",","," ","O","r","a","n","g","e"," ","p","u","s","h">>

\* const color = data || { temperature: 'Warm', ... }: the fallback object
\* has no toneCurve
DefaultColor ==
  [present     |-> TRUE,
   temperature |-> Str(sWarm),
   shadows     |-> Str(sLiftedTealTint),
   highlights  |-> Str(sWarmOrangePush),
   toneCurve   |-> Undefined]

colorOf(d) == IF d.present THEN d ELSE DefaultColor

size == 17

DefaultToneCurve == <<<<0, 0>>, <<50, 50>>, <<100, 100>>>>

\* color.toneCurve || [[0, 0], [50, 50], [100, 100]]  (an empty array is truthy)
toneCurveOf(color) ==
  IF color.toneCurve.defined THEN color.toneCurve.v ELSE DefaultToneCurve

isWarm(color) == lowerIncludes(color.temperature, <<"w","a","r","m">>)

isCool(color) == lowerIncludes(color.temperature, <<"c","o","o","l">>)

hasTealShadows(color) == lowerIncludes(color.shadows, <<"t","e","a","l">>)

hasWarmHighlights(color) == lowerIncludes(color.highlights, <<"w","a","r","m">>)

----------------------------------------------------------------------------
(* Exact arithmetic of one grid point *)

\* luminance is counted in 1/LumUnit: 0.299*r/16 + 0.587*g/16 + 0.114*b/16
LumUnit == 1000 * (size - 1)

\* channel values are counted in 1/(ChanUnit*e): 1/16 for the grid step
\* times 1/20 for the temperature factors 1.05 = 21/20 and 0.95 = 19/20
ChanUnit == 20 * (size - 1)

\* tints are counted in 1/TintUnit: 0.03 and 0.05 times an amount in 1/6400
TintUnit == 2000 * ChanUnit

NaN == [nan |-> TRUE, a |-> 0, e |-> 1, t |-> 0]

Num(a, e, t) == [nan |-> FALSE, a |-> a, e |-> e, t |-> t]

\* x = q*e + r with 0 <= r < e
QR(x, e) == [q |-> x \div e, r |-> x % e]

\* (q + r/e) * f, again as quotient and remainder; needs r*f < 2^31
MulQR(x, f, e) == [q |-> x.q * f + (x.r * f) \div e, r |-> (x.r * f) % e]

\* a/(ChanUnit*e) + t/TintUnit > 1, i.e. t > 2000*m/e for m = ChanUnit*e - a
exceedsOne(v) ==
  LET m == ChanUnit * v.e - v.a
  IN  IF m < 0 THEN TRUE
      ELSE IF v.t = 0 \/ m >= 17 * v.e THEN FALSE
      ELSE v.t > MulQR(MulQR(QR(m, v.e), 40, v.e), 50, v.e).q

\* Math.min(1, v); Math.min returns NaN when an argument is NaN
min1(v) ==
  IF v.nan THEN NaN
  ELSE IF exceedsOne(v) THEN Num(ChanUnit * v.e, v.e, 0)
  ELSE v

\* v * k/20 for the temperature factors; v.a is a multiple of 20 and v.t = 0
\* wherever the source multiplies
scale20(v, k) == IF v.nan THEN NaN ELSE Num((v.a \div 20) * k, v.e, v.t)

\* v + amount * k/100, amount counted in 1/6400
addTint(v, amount, k) ==
  IF v.nan THEN NaN ELSE Num(v.a, v.e, v.t + k * amount)

\* Number.prototype.toFixed(6): the value in millionths, rounded half up
\* 10^6 * (a/(320e) + t/640000) = 3125*a/e + 25*t/16
toFixed6(v) ==
  IF v.nan THEN [nan |-> TRUE, micro |-> 0]
  ELSE LET x    == MulQR(MulQR(QR(v.a, v.e), 125, v.e), 25, v.e)
           tq   == (25 * v.t) \div 16
           tr   == (25 * v.t) % 16
           frac == 16 * x.r + tr * v.e
           up   == IF frac >= 24 * v.e THEN 2
                   ELSE IF frac >= 8 * v.e THEN 1 ELSE 0
       IN  [nan |-> FALSE, micro |-> x.q + tq + up]

----------------------------------------------------------------------------
(* downloadLUT *)

\* 0.299 * rVal + 0.587 * gVal + 0.114 * bVal for rVal = r/(size-1), ...,
\* counted in 1/LumUnit
luminance(r, g, b) == 299 * r + 587 * g + 114 * b

\* The loop of applyToneCurve from pair i on (1-based).  L is the luminance
\* in 1/LumUnit, so v = value * 100 is L/160.  The result is n/(LumUnit*d).
\* A bracketing pair with x1 = x2 has v = x1, and t = (v - x1)/(x2 - x1) is
\* 0/0 = NaN.  Without a bracketing pair the result is the argument.
RECURSIVE toneLoop(_, _, _)
toneLoop(toneCurve, L, i) ==
  IF i >= Len(toneCurve) THEN [nan |-> FALSE, n |-> L, d |-> 1]
  ELSE LET x1 == toneCurve[i][1]
           y1 == toneCurve[i][2]
           x2 == toneCurve[i + 1][1]
           y2 == toneCurve[i + 1][2]
       IN  IF L >= 160 * x1 /\ L <= 160 * x2
             THEN IF x2 = x1
                    THEN [nan |-> TRUE, n |-> 0, d |-> 1]
                    ELSE [nan |-> FALSE,
                          n   |-> 160 * (x2 - x1) * y1 + (L - 160 * x1) * (y2 - y1),
                          d   |-> x2 - x1]
             ELSE toneLoop(toneCurve, L, i + 1)

applyToneCurve(toneCurve, L) == toneLoop(toneCurve, L, 1)

\* luminance || 0.001, in 1/LumUnit
\* mutant: the epsilon is used for every luminance
lumDivisor_AlwaysEpsilon(L) == LumUnit \div 1000

lumDivisor(L) == IF L = 0 THEN LumUnit \div 1000 ELSE L

\* applyToneCurve(luminance) / (luminance || 0.001), the value n/e
curveMultiplier(toneCurve, L) ==
  LET c == applyToneCurve(toneCurve, L)
  IN  [nan |-> c.nan, n |-> c.n, e |-> c.d * lumDivisor(L)]

\* Math.min(1, cVal * curveMultiplier) for cVal = c/(size-1)
toneChannel(c, m) == IF m.nan THEN NaN ELSE min1(Num(20 * c * m.n, m.e, 0))

\* what downloadLUT computes once, before the loops
Settings(color) ==
  [toneCurve         |-> toneCurveOf(color),
   isWarm            |-> isWarm(color),
   isCool            |-> isCool(color),
   hasTealShadows    |-> hasTealShadows(color),
   hasWarmHighlights |-> hasWarmHighlights(color)]

\* // Apply tone curve
toneStep(s, r, g, b) ==
  LET m == curveMultiplier(s.toneCurve, luminance(r, g, b))
  IN  [r |-> toneChannel(r, m), g |-> toneChannel(g, m), b |-> toneChannel(b, m)]

\* // Apply temperature shift
temperatureStep(s, px) ==
  IF s.isWarm
    THEN [r |-> min1(scale20(px.r, 21)), g |-> px.g, b |-> scale20(px.b, 19)]
  ELSE IF s.isCool
    THEN [r |-> scale20(px.r, 19), g |-> px.g, b |-> min1(scale20(px.b, 21))]
  ELSE px

\* // Apply shadow tint (affects darker values); 0.4 is 6400/LumUnit
shadowStep(s, px, L) ==
  IF s.hasTealShadows /\ L < 6400
    THEN [r |-> px.r,
          g |-> min1(addTint(px.g, 6400 - L, 3)),
          b |-> min1(addTint(px.b, 6400 - L, 5))]
    ELSE px

\* mutant: the highlights start at the shadow threshold
highlightStep_From04(s, px, L) ==
  IF s.hasWarmHighlights /\ L > 6400
    THEN [r |-> min1(addTint(px.r, L - 6400, 3)), g |-> px.g, b |-> px.b]
    ELSE px

\* // Apply highlight warmth (affects brighter values); 0.6 is 9600/LumUnit
highlightStep(s, px, L) ==
  IF s.hasWarmHighlights /\ L > 9600
    THEN [r |-> min1(addTint(px.r, L - 9600, 3)), g |-> px.g, b |-> px.b]
    ELSE px

\* the body of the innermost loop, up to the values that are printed
lutEntry(s, r, g, b) ==
  LET L == luminance(r, g, b)
  IN  highlightStep(s, shadowStep(s, temperatureStep(s, toneStep(s, r, g, b)), L), L)

HeaderLine(kind, n) == [kind |-> kind, n |-> n, rgb |-> <<>>]

\* `${rVal.toFixed(6)} ${gVal.toFixed(6)} ${bVal.toFixed(6)}\n`
DataLine(px) ==
  [kind |-> "data", n |-> 0,
   rgb  |-> <<toFixed6(px.r), toFixed6(px.g), toFixed6(px.b)>>]

\* mutant: the size line is written before the title
Header_SizeFirst ==
  <<HeaderLine("LUT_3D_SIZE", size), HeaderLine("", 0),
    HeaderLine("TITLE", 0), HeaderLine("#", 0)>>

\* the text before the loops, line by line; the size line ends in "\n\n"
Header ==
  <<HeaderLine("TITLE", 0), HeaderLine("#", 0),
    HeaderLine("LUT_3D_SIZE", size), HeaderLine("", 0)>>

\* the lines of a sequence of blocks of lines, in the order they were
\* appended to lutContent, from block i on
RECURSIVE appended(_, _)
appended(blocks, i) ==
  IF i > Len(blocks) THEN <<>> ELSE blocks[i] \o appended(blocks, i + 1)

\* mutant: the red and the green coordinate change places
loopR_GreenFastest(s, b, g) ==
  [r \in 1..size |-> DataLine(lutEntry(s, g, r - 1, b))]

\* for (let r = 0; r < size; r++): one line per r, in ascending order
loopR(s, b, g) ==
  [r \in 1..size |-> DataLine(lutEntry(s, r - 1, g, b))]

\* for (let g = 0; g < size; g++): the lines of the inner loop, g ascending
loopG(s, b) == appended([g \in 1..size |-> loopR(s, b, g - 1)], 1)

\* for (let b = 0; b < size; b++): the lines of the inner loops, b ascending
loopB(s) == appended([b \in 1..size |-> loopG(s, b - 1)], 1)

\* the text handed to the Blob, as its sequence of lines
downloadLUT(color) == Header \o loopB(Settings(color))

----------------------------------------------------------------------------
(* LoadingAnalysis *)

analysisSteps ==
  <<"Reading image metadata...", "Analyzing depth of field...",
    "Detecting light sources...", "Extracting color palette...",
    "Analyzing tone curve...", "Generating recommendations...">>

\* analysisSteps.length - 1, the 0-based index of the last step
LastStepIndex == Len(analysisSteps) - 1

estimatedDuration == 5000

\* mutant: the bar is not capped
progress_Uncapped(elapsed) == (elapsed * 100) \div estimatedDuration

\* Math.min((elapsedTime / estimatedDuration) * 100, 95), in percent; the
\* quotient is exact for the multiples of 50 ms, which is all the timer
\* makes (the double is off by 1e-14 at 700, 1400, 2800 and 2900 ms)
progress(elapsed) ==
  IF elapsed * 100 >= 95 * estimatedDuration
    THEN 95
    ELSE (elapsed * 100) \div estimatedDuration

\* the flags of one row of the step list, index counted from 0
isActive(index) == index = currentStep

isComplete(index) == index < currentStep

isLast(index) == index = LastStepIndex

isWaiting(index) ==
  isActive(index) /\ isLast(index) /\ progress(elapsedTime) > 80

\* {isWaiting ? 'Finishing up...' : step.text}
stepLabel(index) ==
  IF isWaiting(index) THEN "Finishing up..." ELSE analysisSteps[index + 1]

\* useState(0), useState(0); the effect has started both intervals
LoadingMounted ==
  /\ mounted = TRUE
  /\ currentStep = 0
  /\ elapsedTime = 0
  /\ stepTicks = 0

\* the component is not on the page
LoadingAbsent ==
  /\ mounted = FALSE
  /\ currentStep = 0
  /\ elapsedTime = 0
  /\ stepTicks = 0

\* mutant: the steps start over after the last one
StepTick_Looping ==
  /\ mounted
  /\ stepTicks < MaxStepTicks
  /\ currentStep' = (currentStep + 1) % Len(analysisSteps)
  /\ stepTicks' = stepTicks + 1
  /\ UNCHANGED <<mounted, elapsedTime, lutVars, appVars, panelVars>>

\* the callback of stepInterval (every 800 ms)
StepTick ==
  /\ mounted
  /\ stepTicks < MaxStepTicks
  /\ currentStep' = IF currentStep >= Len(analysisSteps) - 1
                      THEN currentStep
                      ELSE currentStep + 1
  /\ stepTicks' = stepTicks + 1
  /\ UNCHANGED <<mounted, elapsedTime, lutVars, appVars, panelVars>>

\* the callback of timeInterval (every 100 ms)
TimeTick ==
  /\ mounted
  /\ elapsedTime < 100 * MaxTimeTicks
  /\ elapsedTime' = elapsedTime + 100
  /\ UNCHANGED <<mounted, currentStep, stepTicks, lutVars, appVars, panelVars>>

\* the cleanup of the effect: both intervals are cleared
Unmount ==
  /\ mounted
  /\ mounted' = FALSE
  /\ UNCHANGED <<currentStep, elapsedTime, stepTicks, lutVars, appVars, panelVars>>

----------------------------------------------------------------------------
(* App *)

\* null, for image, imagePreview and analysisResult; an upload is known by
\* its number k >= 1: its File, its object URL and its response body
NoValue == 0

NoError == "null"

FailureMessage == "Failed to analyze image. Please try again."

\* localStorage.getItem of a key that was never set
NoItem == -1

\* parseInt(localStorage.getItem(key) || '0')
parseIntOrZero(item) == IF item = NoItem THEN 0 ELSE item

\* where the async handler of upload k stands: not started, awaiting fetch,
\* awaiting response.json(), or returned (by what made it return)
InFlight == {"fetch", "json"}

FailureOutcomes == {"rejected", "notOk", "unparsable"}

\* what this browser has stored from earlier visits: nothing, four
\* analyses, or nine analyses and the prompt shown at the fifth
StoredBefore ==
  {[analysisCount |-> NoItem, lastDonationPrompt |-> NoItem],
   [analysisCount |-> 4, lastDonationPrompt |-> NoItem],
   [analysisCount |-> 9, lastDonationPrompt |-> 5]}

\* the useState initial values, no request, no timer
AppStarted ==
  /\ image = NoValue
  /\ imagePreview = NoValue
  /\ analysisResult = NoValue
  /\ isAnalyzing = FALSE
  /\ error = NoError
  /\ showDonationPrompt = FALSE
  /\ requests = [k \in 1..MaxUploads |-> "none"]
  /\ uploads = 0
  /\ promptTimers = 0

\* App is not part of the behaviour
AppAbsent ==
  /\ AppStarted
  /\ localStorage = [analysisCount |-> NoItem, lastDonationPrompt |-> NoItem]

\* catch (err) { setError(...) } finally { setIsAnalyzing(false) }
CatchFinally(k, outcome) ==
  /\ error' = FailureMessage
  /\ isAnalyzing' = FALSE
  /\ requests' = [requests EXCEPT ![k] = outcome]

\* handleImageUpload up to its first await; ImageUploader is on the page
\* while image is null
Upload ==
  /\ image = NoValue
  /\ uploads < MaxUploads
  /\ uploads' = uploads + 1
  /\ image' = uploads + 1
  /\ imagePreview' = uploads + 1
  /\ error' = NoError
  /\ isAnalyzing' = TRUE
  /\ analysisResult' = NoValue
  /\ requests' = [requests EXCEPT ![uploads + 1] = "fetch"]
  /\ UNCHANGED <<showDonationPrompt, localStorage, promptTimers>>
  /\ UNCHANGED <<lutVars, loadingVars, panelVars>>

\* handleReset: the logo button, or New Analysis
Reset ==
  /\ image' = NoValue
  /\ imagePreview' = NoValue
  /\ analysisResult' = NoValue
  /\ error' = NoError
  /\ UNCHANGED <<isAnalyzing, showDonationPrompt, localStorage, requests,
                 uploads, promptTimers>>
  /\ UNCHANGED <<lutVars, loadingVars, panelVars>>

\* fetch rejects (no network): catch, finally
FetchRejects(k) ==
  /\ requests[k] = "fetch"
  /\ CatchFinally(k, "rejected")
  /\ UNCHANGED <<image, imagePreview, analysisResult, showDonationPrompt,
                 localStorage, uploads, promptTimers>>
  /\ UNCHANGED <<lutVars, loadingVars, panelVars>>

\* fetch resolves, !response.ok: throw, catch, finally
ResponseNotOk(k) ==
  /\ requests[k] = "fetch"
  /\ CatchFinally(k, "notOk")
  /\ UNCHANGED <<image, imagePreview, analysisResult, showDonationPrompt,
                 localStorage, uploads, promptTimers>>
  /\ UNCHANGED <<lutVars, loadingVars, panelVars>>

\* fetch resolves, response.ok: on to await response.json()
ResponseOk(k) ==
  /\ requests[k] = "fetch"
  /\ requests' = [requests EXCEPT ![k] = "json"]
  /\ UNCHANGED <<image, imagePreview, analysisResult, isAnalyzing, error,
                 showDonationPrompt, localStorage, uploads, promptTimers>>
  /\ UNCHANGED <<lutVars, loadingVars, panelVars>>

\* response.json() rejects: catch, finally
BodyUnparsable(k) ==
  /\ requests[k] = "json"
  /\ CatchFinally(k, "unparsable")
  /\ UNCHANGED <<image, imagePreview, analysisResult, showDonationPrompt,
                 localStorage, uploads, promptTimers>>
  /\ UNCHANGED <<lutVars, loadingVars, panelVars>>

\* response.json() resolves: the result is stored, the analysis counted and
\* the donation prompt scheduled when five analyses have passed; finally
BodyParsed(k) ==
  /\ requests[k] = "json"
  /\ analysisResult' = k
  /\ LET count      == parseIntOrZero(localStorage.analysisCount) + 1
         lastPrompt == parseIntOrZero(localStorage.lastDonationPrompt)
     IN  IF count >= 5 /\ count - lastPrompt >= 5
           THEN /\ promptTimers' = promptTimers + 1
                /\ localStorage' = [analysisCount |-> count,
                                    lastDonationPrompt |-> count]
           ELSE /\ promptTimers' = promptTimers
                /\ localStorage' = [localStorage EXCEPT !.analysisCount = count]
  /\ isAnalyzing' = FALSE
  /\ requests' = [requests EXCEPT ![k] = "succeeded"]
  /\ UNCHANGED <<image, imagePreview, error, showDonationPrompt, uploads>>
  /\ UNCHANGED <<lutVars, loadingVars, panelVars>>

\* response.json() resolves and the result is stored, then localStorage
\* throws (storage blocked or full) at line 39 or 40: catch, finally
StorageThrows(k) ==
  /\ requests[k] = "json"
  /\ analysisResult' = k
  /\ CatchFinally(k, "storageFailed")
  /\ UNCHANGED <<image, imagePreview, showDonationPrompt, localStorage,
                 uploads, promptTimers>>
  /\ UNCHANGED <<lutVars, loadingVars, panelVars>>

\* setTimeout(() => setShowDonationPrompt(true), 1500) fires
PromptTimer ==
  /\ promptTimers > 0
  /\ promptTimers' = promptTimers - 1
  /\ showDonationPrompt' = TRUE
  /\ UNCHANGED <<image, imagePreview, analysisResult, isAnalyzing, error,
                 localStorage, requests, uploads>>
  /\ UNCHANGED <<lutVars, loadingVars, panelVars>>

\* Maybe Later
DismissPrompt ==
  /\ showDonationPrompt
  /\ showDonationPrompt' = FALSE
  /\ UNCHANGED <<image, imagePreview, analysisResult, isAnalyzing, error,
                 localStorage, requests, uploads, promptTimers>>
  /\ UNCHANGED <<lutVars, loadingVars, panelVars>>

----------------------------------------------------------------------------
(* CameraPanel and the tone curve of ColorPanel *)

\* JavaScript truthiness of an optional string: undefined and '' are falsy
truthy(str) == str.defined /\ str.v # ""

\* const camera = data || { focalLength: '~85mm', ... }: the fallback object
\* has neither camera nor lens
DefaultCamera ==
  [present      |-> TRUE,
   focalLength  |-> Some("~85mm"),
   aperture     |-> Some("f/2.0 - f/2.8"),
   iso          |-> Some("Low (100-400)"),
   shutterSpeed |-> Some("1/125s"),
   sensorSize   |-> Some("Full Frame"),
   camera       |-> Undefined,
   lens         |-> Undefined]

cameraOf(d) == IF d.present THEN d ELSE DefaultCamera

Item(label, value) == [label |-> label, value |-> value]

\* const items = [ ... ]: the five base settings
baseItems(cam) ==
  <<Item("Focal Length", cam.focalLength),
    Item("Aperture", cam.aperture),
    Item("ISO", cam.iso),
    Item("Shutter Speed", cam.shutterSpeed),
    Item("Sensor Size", cam.sensorSize)>>

\* Array.prototype.unshift(item)
unshift(arr, item) == <<item>> \o arr

\* Array.prototype.splice(start, 0, item), 0 <= start <= length
splice(arr, start, item) ==
  SubSeq(arr, 1, start) \o <<item>> \o SubSeq(arr, start + 1, Len(arr))

\* mutant: the lens is always put in front
lensIndex_AlwaysFirst(cam) == 0

\* camera.camera ? 1 : 0
lensIndex(cam) == IF truthy(cam.camera) THEN 1 ELSE 0

\* the items CameraPanel renders, in order
cameraItems(d) ==
  LET cam        == cameraOf(d)
      withCamera == IF truthy(cam.camera)
                      THEN unshift(baseItems(cam), Item("Camera", cam.camera))
                      ELSE baseItems(cam)
  IN  IF truthy(cam.lens)
        THEN splice(withCamera, lensIndex(cam), Item("Lens", cam.lens))
        ELSE withCamera

\* one command of an SVG path with its numbers; a number is kept as twice
\* its value, the control point of Q being a mean of two coordinates
Segment(cmd, twice) == [cmd |-> cmd, twice |-> twice]

\* "M 0 100 L 100 0"
LinearPath == <<Segment("M", <<0, 200>>), Segment("L", <<200, 0>>)>>

\* points.map(([x, y]) => [x, 100 - y])
svgPointsOf(points) ==
  [i \in 1..Len(points) |-> <<points[i][1], 100 - points[i][2]>>]

\* mutant: every later point gets a Q segment of its own
curveSegment_AlwaysQ(svgPoints, i) ==
  Segment("Q", <<svgPoints[i - 1][1] + svgPoints[i][1],
                 2 * svgPoints[i - 1][2],
                 2 * svgPoints[i][1], 2 * svgPoints[i][2]>>)

\* the body of the loop, i the 1-based index of curr (i >= 2)
curveSegment(svgPoints, i) ==
  LET prev == svgPoints[i - 1]
      curr == svgPoints[i]
  IN  IF i = 2
        THEN Segment("Q", <<prev[1] + curr[1], 2 * prev[2],
                            2 * curr[1], 2 * curr[2]>>)
        ELSE Segment("T", <<2 * curr[1], 2 * curr[2]>>)

\* generateCurvePath(points), points the optional color.toneCurve
generateCurvePath(points) ==
  IF ~points.defined \/ Len(points.v) < 2
    THEN LinearPath
    ELSE LET svgPoints == svgPointsOf(points.v)
         IN  <<Segment("M", <<2 * svgPoints[1][1], 2 * svgPoints[1][2]>>)>>
             \o [j \in 1..(Len(svgPoints) - 1) |-> curveSegment(svgPoints, j + 1)]

\* neither panel has been rendered
PanelsAbsent ==
  /\ camera = Null
  /\ items = <<>>
  /\ curvePath = <<>>

\* CameraPanel renders its data prop
RenderCameraPanel ==
  /\ items' = cameraItems(camera)
  /\ UNCHANGED <<camera, curvePath>>
  /\ UNCHANGED <<lutVars, loadingVars, appVars>>

\* ColorPanel renders the tone curve of its data prop
RenderColorPanel ==
  /\ curvePath' = generateCurvePath(colorOf(data).toneCurve)
  /\ UNCHANGED <<camera, items>>
  /\ UNCHANGED <<lutVars, loadingVars, appVars>>

----------------------------------------------------------------------------
(* The state machine *)

\* control points the analysis may report, in the order it reports them:
\* the two anchors, a second point at x = 0 and a point above the diagonal
CandidatePoints == <<<<0, 0>>, <<0, 20>>, <<50, 70>>, <<100, 100>>>>

StrictlyIncreasing(f, n) == \A i \in 1..(n - 1) : f[i] < f[i + 1]

\* the tone curves of n control points: selections from CandidatePoints
CurvesOfLen(n) ==
  {[i \in 1..n |-> CandidatePoints[f[i]]] :
     f \in {h \in [1..n -> 1..Len(CandidatePoints)] : StrictlyIncreasing(h, n)}}

ToneCurves == UNION {CurvesOfLen(n) : n \in 0..MaxCurveLen}

\* 'Cool', 'Neutral' and 'Cool-Warm'; 'Warm' is the panel's own default
Temperatures ==
  {Str(<<"C","o","o","l">>),
   Str(<<"N","e","u","t","r","a","l">>),
   Str(<<"C","o","o","l","-","W","a","r","m">>)}

ShadowTints == {Undefined, Str(sLiftedTealTint)}

HighlightTints == {Str(<<"N","e","u","t","r","a","l">>), Str(sWarmOrangePush)}

\* the data prop: null, or the color object of an analysis result
Data ==
  {Null} \cup
  [present     : {TRUE},
   temperature : Temperatures,
   shadows     : ShadowTints,
   highlights  : HighlightTints,
   toneCurve   : {Undefined} \cup {Some(c) : c \in ToneCurves}]

\* ColorPanel is rendered with some data; no file has been generated
Init ==
  /\ data \in Data
  /\ lutContent = <<>>
  /\ downloads = 0
  /\ LoadingAbsent
  /\ AppAbsent
  /\ PanelsAbsent

\* mutant: lutContent outlives the handler and is appended to
DownloadLUT_KeepsContent ==
  /\ downloads < MaxDownloads
  /\ lutContent' = lutContent \o downloadLUT(colorOf(data))
  /\ downloads' = downloads + 1
  /\ UNCHANGED <<data, loadingVars, appVars, panelVars>>

\* onClick={downloadLUT}: the text is built and handed over as a file
DownloadLUT ==
  /\ downloads < MaxDownloads
  /\ lutContent' = downloadLUT(colorOf(data))
  /\ downloads' = downloads + 1
  /\ UNCHANGED <<data, loadingVars, appVars, panelVars>>

Next == DownloadLUT

Spec == Init /\ [][Next]_vars

\* ColorPanel shows nothing to download
ColorPanelAbsent ==
  /\ data = Null
  /\ lutContent = <<>>
  /\ downloads = 0

\* LoadingAnalysis has just been mounted
LoadingInit ==
  LoadingMounted /\ ColorPanelAbsent /\ AppAbsent /\ PanelsAbsent

LoadingNext == StepTick \/ TimeTick \/ Unmount

LoadingSpec == LoadingInit /\ [][LoadingNext]_vars

\* App has just been loaded
AppInit ==
  /\ AppStarted
  /\ localStorage \in StoredBefore
  /\ ColorPanelAbsent /\ LoadingAbsent /\ PanelsAbsent

AppNext ==
  \/ Upload
  \/ Reset
  \/ \E k \in 1..MaxUploads :
       \/ FetchRejects(k)
       \/ ResponseNotOk(k)
       \/ ResponseOk(k)
       \/ BodyUnparsable(k)
       \/ BodyParsed(k)
       \/ StorageThrows(k)
  \/ PromptTimer
  \/ DismissPrompt

AppSpec == AppInit /\ [][AppNext]_vars

\* the EXIF camera or lens name of an analysis: absent, empty or a name
ExifNames == {Undefined, Some(""), Some("Canon EOS R5"), Some("RF 85mm F1.2")}

\* the data prop of CameraPanel: null, or the camera object of a result
CameraData ==
  {Null} \cup
  [present      : {TRUE},
   focalLength  : {Some("50mm")},
   aperture     : {Some("f/1.8")},
   iso          : {Some("ISO 200")},
   shutterSpeed : {Some("1/250s")},
   sensorSize   : {Some("Full Frame")},
   camera       : ExifNames,
   lens         : ExifNames]

\* control points a drawn tone curve is made of, in any order
PathPoints == {<<0, 0>>, <<25, 40>>, <<100, 100>>}

\* arrays of 0 .. MaxPathLen control points
PathCurves ==
  UNION {[1..n -> PathPoints] : n \in 0..MaxPathLen}

\* the data prop of ColorPanel as far as the drawn curve goes
CurveData ==
  {Null} \cup
  [present     : {TRUE},
   temperature : {Str(sWarm)},
   shadows     : {Undefined},
   highlights  : {Undefined},
   toneCurve   : {Undefined} \cup {Some(c) : c \in PathCurves}]

\* both panels are about to render a result
PanelInit ==
  /\ camera \in CameraData
  /\ data \in CurveData
  /\ items = <<>>
  /\ curvePath = <<>>
  /\ lutContent = <<>> /\ downloads = 0
  /\ LoadingAbsent /\ AppAbsent

PanelNext == RenderCameraPanel \/ RenderColorPanel

PanelSpec == PanelInit /\ [][PanelNext]_vars

\* the browser keeps firing an interval that is not cleared
LoadingFairSpec ==
  LoadingSpec /\ WF_vars(StepTick) /\ WF_vars(TimeTick)

----------------------------------------------------------------------------
(* Vocabulary of the properties *)

\* downloadLUT has run
Generated == lutContent # <<>>

\* the settings downloadLUT derives from the data the panel shows
CurrentSettings == Settings(colorOf(data))

Grid == 0..(size - 1)

\* the data lines of the generated text, in the order they were written
DataLinesOf(content) == SelectSeq(content, LAMBDA l : l.kind = "data")

\* the position of the first line that is not a header line
FirstDataIndex(content) ==
  IF \E i \in 1..Len(content) : content[i].kind = "data"
    THEN CHOOSE i \in 1..Len(content) :
           /\ content[i].kind = "data"
           /\ \A j \in 1..(i - 1) : content[j].kind # "data"
    ELSE Len(content) + 1

\* a printed value is a number in [0,1]
PrintedInUnitRange(f) == ~f.nan /\ f.micro >= 0 /\ f.micro <= 1000000

\* a channel value is a number in [0,1]
InUnitRange(v) == ~v.nan /\ v.a >= 0 /\ v.t >= 0 /\ ~exceedsOne(v)

\* the spec's invariant of ColorEstimate.toneCurve
WellFormedCurve(c) ==
  /\ \A i \in 1..Len(c) : c[i][1] \in 0..100 /\ c[i][2] \in 0..100
  /\ \A i \in 1..(Len(c) - 1) : c[i][1] <= c[i + 1][1]
  /\ \E i \in 1..Len(c) : c[i] = <<0, 0>>
  /\ \E i \in 1..Len(c) : c[i] = <<100, 100>>

----------------------------------------------------------------------------
(* Properties *)

\* C1: for a tone curve with x and y in [0,100], non-decreasing in x and
\* containing (0,0) and (100,100), and any temperature, shadows and
\* highlights strings, downloadLUT emits exactly size^3 data lines and each
\* of the three values of every data line is a number in [0,1].
C1_SizeCubedLinesInUnitRange ==
  (Generated /\ WellFormedCurve(CurrentSettings.toneCurve)) =>
    LET lines == DataLinesOf(lutContent)
    IN  /\ Len(lines) = size * size * size
        /\ \A i \in 1..Len(lines) :
             \A k \in 1..3 : PrintedInUnitRange(lines[i].rgb[k])

\* C2: data lines are written with blue varying slowest, green in the
\* middle and red fastest: the data line at 0-based index i is the output
\* for the grid coordinate r = i mod size, g = (i div size) mod size,
\* b = i div size^2, for every input.
C2_BlueMajorRedMinorOrder ==
  Generated =>
    LET lines == DataLinesOf(lutContent)
        s     == CurrentSettings
    IN  /\ Len(lines) = size * size * size
        /\ \A i \in 0..(size * size * size - 1) :
             lines[i + 1] =
               DataLine(lutEntry(s, i % size, (i \div size) % size,
                                 i \div (size * size)))

\* a table was generated whose lines for one step in red, in green and in
\* blue from the origin are three different lines
C2_Witness ==
  /\ Generated
  /\ LET lines == DataLinesOf(lutContent)
     IN  /\ lines[2] = DataLine(lutEntry(CurrentSettings, 1, 0, 0))
         /\ lines[size + 1] = DataLine(lutEntry(CurrentSettings, 0, 1, 0))
         /\ lines[size * size + 1] = DataLine(lutEntry(CurrentSettings, 0, 0, 1))
         /\ lines[2] # lines[size + 1]
         /\ lines[2] # lines[size * size + 1]
         /\ lines[size + 1] # lines[size * size + 1]

C10_HeaderBeforeData ==
  Generated =>
    LET first == FirstDataIndex(lutContent)
    IN  /\ Len(lutContent) >= 3
        /\ lutContent[1].kind = "TITLE"
        /\ lutContent[2].kind = "#"
        /\ lutContent[3].kind = "LUT_3D_SIZE"
        /\ lutContent[3].n = size
        /\ lutContent[3].n * lutContent[3].n * lutContent[3].n
             = Len(DataLinesOf(lutContent))
        /\ first > 3
        /\ \A i \in first..Len(lutContent) : lutContent[i].kind = "data"

\* a table was generated: header lines followed by data lines
C10_Witness ==
  /\ Generated
  /\ lutContent[3].kind = "LUT_3D_SIZE"
  /\ lutContent[Len(lutContent)].kind = "data"
  /\ FirstDataIndex(lutContent) = Len(Header) + 1

\* C3: with the identity tone curve [[0,0],[100,100]], a temperature that
\* is neither warm nor cool and no shadow or highlight tint, every output
\* triple equals its grid coordinate (r/(size-1), g/(size-1), b/(size-1))
\* to within one millionth, at every grid point, the corners included.
C3_IdentityCurveGivesIdentityLut ==
  (/\ Generated
   /\ CurrentSettings.toneCurve = <<<<0, 0>>, <<100, 100>>>>
   /\ ~CurrentSettings.isWarm /\ ~CurrentSettings.isCool
   /\ ~CurrentSettings.hasTealShadows /\ ~CurrentSettings.hasWarmHighlights) =>
    LET lines == DataLinesOf(lutContent)
        Near(f, c) ==
          /\ ~f.nan
          /\ f.micro * (size - 1) - 1000000 * c <= size - 1
          /\ 1000000 * c - f.micro * (size - 1) <= size - 1
    IN  \A b \in Grid : \A g \in Grid : \A r \in Grid :
          LET line == lines[b * size * size + g * size + r + 1].rgb
          IN  Near(line[1], r) /\ Near(line[2], g) /\ Near(line[3], b)

\* the identity table was generated: black stays black, white stays white
\* and one step in red is 1/16
C3_Witness ==
  /\ Generated
  /\ CurrentSettings.toneCurve = <<<<0, 0>>, <<100, 100>>>>
  /\ ~CurrentSettings.isWarm /\ ~CurrentSettings.isCool
  /\ ~CurrentSettings.hasTealShadows /\ ~CurrentSettings.hasWarmHighlights
  /\ LET lines == DataLinesOf(lutContent)
     IN  /\ lines[1].rgb[1].micro = 0
         /\ lines[2].rgb[1].micro = 62500
         /\ lines[size * size * size].rgb[3].micro = 1000000

\* C5: applyToneCurve interpolates linearly between the bracketing control
\* points: for the first consecutive pair (x1,y1),(x2,y2) with
\* x1 <= 100*L <= x2 the result is the number
\* (y1 + (100*L - x1)/(x2 - x1) * (y2 - y1))/100, and when no consecutive
\* pair brackets 100*L (fewer than two points, for one) it is L itself; for
\* every curve that is non-decreasing in x.
C5_PiecewiseLinearOrFallback ==
  Generated =>
    LET c == CurrentSettings.toneCurve
        Brackets(i, L) == 160 * c[i][1] <= L /\ L <= 160 * c[i + 1][1]
    IN  \A b \in Grid : \A g \in Grid : \A r \in Grid :
          LET L   == luminance(r, g, b)
              res == applyToneCurve(c, L)
          IN  IF \E i \in 1..(Len(c) - 1) : Brackets(i, L)
                THEN LET i  == CHOOSE j \in 1..(Len(c) - 1) :
                                 /\ Brackets(j, L)
                                 /\ \A k \in 1..(j - 1) : ~Brackets(k, L)
                         dx == c[i + 1][1] - c[i][1]
                         dy == c[i + 1][2] - c[i][2]
                     IN  /\ ~res.nan
                         /\ res.n * dx
                              = res.d * (160 * dx * c[i][2] + (L - 160 * c[i][1]) * dy)
                ELSE ~res.nan /\ res.n = L * res.d

\* p and q are numbers and q = p * k/20
TimesTwentieths(p, q, k) ==
  /\ ~p.nan /\ ~q.nan /\ q.e = p.e /\ q.t = p.t
  /\ 20 * (q.a - p.a) = (k - 20) * p.a

\* p and q are numbers and q = min(1, p * 21/20), for p without tint
MinOneOfTimes105(p, q) ==
  /\ ~p.nan /\ ~q.nan
  /\ IF ChanUnit * p.e - p.a <= p.a \div 20
       THEN q.e = p.e /\ q.t = 0 /\ q.a = ChanUnit * p.e
       ELSE TimesTwentieths(p, q, 21)

\* C6: the temperature step.  Warm (the temperature contains 'warm'): red
\* becomes the number min(1, 1.05*red), blue the number 0.95*blue.  Cool (it
\* contains 'cool' and not 'warm'): red becomes 0.95*red, blue
\* min(1, 1.05*blue).  Neutral (neither): nothing changes.  Green never
\* changes, and no grid point gets both the warm and the cool adjustment.
C6_TemperatureShift ==
  Generated =>
    LET s == CurrentSettings
    IN  \A b \in Grid : \A g \in Grid : \A r \in Grid :
          LET p == toneStep(s, r, g, b)
              q == temperatureStep(s, p)
              warmApplied == MinOneOfTimes105(p.r, q.r) /\ TimesTwentieths(p.b, q.b, 19)
              coolApplied == TimesTwentieths(p.r, q.r, 19) /\ MinOneOfTimes105(p.b, q.b)
          IN  /\ q.g = p.g
              /\ s.isWarm => warmApplied
              /\ (s.isCool /\ ~s.isWarm) => coolApplied
              /\ (~s.isWarm /\ ~s.isCool) => q = p
              /\ (q # p) => ~(warmApplied /\ coolApplied)

\* p and q are numbers, q = min(1, p + k/100 * amount/6400) and q is in [0,1]
MinOneOfPlusTint(p, q, k, amount) ==
  /\ ~p.nan
  /\ LET sum == Num(p.a, p.e, p.t + k * amount)
     IN  IF exceedsOne(sum)
           THEN q = Num(ChanUnit * p.e, p.e, 0)
           ELSE q = sum
  /\ InUnitRange(q)

\* C7: the shadow tint.  If the shadows contain 'teal', every grid point
\* with luminance L < 0.4 gets 0.03*(0.4 - L)/0.4 added to green and
\* 0.05*(0.4 - L)/0.4 added to blue, each clamped at 1 and so a number
\* in [0,1], and red is kept;
\* grid points with L >= 0.4, and every grid point when the shadows do not
\* contain 'teal', are unchanged by this step.  L is the luminance of the
\* grid coordinate.
C7_ShadowTint ==
  Generated =>
    LET s == CurrentSettings
    IN  \A b \in Grid : \A g \in Grid : \A r \in Grid :
          LET L == luminance(r, g, b)
              p == temperatureStep(s, toneStep(s, r, g, b))
              q == shadowStep(s, p, L)
          IN  IF s.hasTealShadows /\ 5 * L < 2 * LumUnit
                THEN /\ q.r = p.r
                     /\ MinOneOfPlusTint(p.g, q.g, 3, (2 * LumUnit) \div 5 - L)
                     /\ MinOneOfPlusTint(p.b, q.b, 5, (2 * LumUnit) \div 5 - L)
                ELSE q = p

\* C8: the highlight tint mirrors the shadow tint above 0.6.  If the
\* highlights contain 'warm', every grid point with luminance L > 0.6 gets
\* 0.03*(L - 0.6)/0.4 added to red, clamped at 1 and so a number in [0,1],
\* green and blue kept; grid
\* points with L <= 0.6 are unchanged by this step (as is every grid point
\* when the highlights do not contain 'warm'); and no grid point is changed
\* by both the shadow-tint and the highlight-tint step.
C8_HighlightTint ==
  Generated =>
    LET s == CurrentSettings
    IN  \A b \in Grid : \A g \in Grid : \A r \in Grid :
          LET L  == luminance(r, g, b)
              p1 == temperatureStep(s, toneStep(s, r, g, b))
              p2 == shadowStep(s, p1, L)
              p3 == highlightStep(s, p2, L)
          IN  /\ IF s.hasWarmHighlights /\ 5 * L > 3 * LumUnit
                   THEN /\ MinOneOfPlusTint(p2.r, p3.r, 3, L - (3 * LumUnit) \div 5)
                        /\ p3.g = p2.g /\ p3.b = p2.b
                   ELSE p3 = p2
              /\ ~(p2 # p1 /\ p3 # p2)

\* a table was generated with teal shadows and warm highlights: some bright
\* grid point has its red raised below 1, some has it clamped at 1, and
\* some dark grid point is changed by the shadow tint
C8_Witness ==
  /\ Generated
  /\ CurrentSettings.hasWarmHighlights /\ CurrentSettings.hasTealShadows
  /\ \E b \in Grid : \E g \in Grid : \E r \in Grid :
       LET L == luminance(r, g, b)
           p == shadowStep(CurrentSettings,
                  temperatureStep(CurrentSettings, toneStep(CurrentSettings, r, g, b)), L)
           q == highlightStep(CurrentSettings, p, L)
       IN  /\ 5 * L > 3 * LumUnit /\ ~p.r.nan
           /\ q.r.t > p.r.t /\ q.g = p.g /\ q.b = p.b
  /\ \E b \in Grid : \E g \in Grid : \E r \in Grid :
       LET L == luminance(r, g, b)
           p == shadowStep(CurrentSettings,
                  temperatureStep(CurrentSettings, toneStep(CurrentSettings, r, g, b)), L)
           q == highlightStep(CurrentSettings, p, L)
       IN  /\ 5 * L > 3 * LumUnit /\ ~p.r.nan
           /\ p.r.a < ChanUnit * p.r.e /\ q.r = Num(ChanUnit * p.r.e, p.r.e, 0)
  /\ \E b \in Grid : \E g \in Grid : \E r \in Grid :
       LET p == temperatureStep(CurrentSettings, toneStep(CurrentSettings, r, g, b))
       IN  shadowStep(CurrentSettings, p, luminance(r, g, b)) # p

\* C9: at every grid point the tone-curve scale is curve(L)/L with the
\* divisor kept away from zero (0.001 when L is 0), so no scale is computed
\* by a division by zero, and after scaling each of the three channels is
\* clamped so that it is a number in [0,1].
C9_ScaleDefinedAndClamped ==
  (Generated /\ WellFormedCurve(CurrentSettings.toneCurve)) =>
    LET s == CurrentSettings
    IN  \A b \in Grid : \A g \in Grid : \A r \in Grid :
          LET L  == luminance(r, g, b)
              px == toneStep(s, r, g, b)
          IN  /\ lumDivisor(L) # 0
              /\ (L = 0 => 1000 * lumDivisor(L) = LumUnit)
              /\ (L # 0 => lumDivisor(L) = L)
              /\ InUnitRange(px.r) /\ InUnitRange(px.g) /\ InUnitRange(px.b)

\* C11: while LoadingAnalysis is mounted currentStep walks through the steps
\* without looping: it starts at 0, every tick of the step timer adds
\* exactly 1 until it is the last index (5), it never decreases and never
\* exceeds the last index, and with the timer firing fairly it reaches the
\* last index (unless the component is unmounted first) and stays there.
C11_StepsWithoutLooping ==
  /\ [](LastStepIndex = 5 /\ currentStep \in 0..LastStepIndex)
  /\ [](currentStep = IF stepTicks < LastStepIndex THEN stepTicks
                        ELSE LastStepIndex)
  /\ [][currentStep' >= currentStep]_vars
  /\ <>(currentStep = LastStepIndex \/ ~mounted)
  /\ [](currentStep = LastStepIndex => [](currentStep = LastStepIndex))

\* mounted, the step timer has fired more often than there are steps and
\* the last step is the current one
C11_Witness ==
  /\ mounted
  /\ stepTicks > Len(analysisSteps)
  /\ currentStep = LastStepIndex

\* C12: the progress shown is min(elapsedTime / 5000 * 100, 95): it never
\* decreases from tick to tick, is always in [0,95] and never 100, however
\* long the analysis takes; 'Finishing up...' is the label of the last step
\* only, and only while progress is above 80.
C12_ProgressCappedAt95 ==
  /\ [](LET p == progress(elapsedTime)
        IN  /\ p >= 0 /\ p <= 95 /\ p # 100
            /\ \/ p * 5000 = elapsedTime * 100
               \/ p = 95 /\ elapsedTime * 100 >= 95 * 5000
            /\ \A index \in 0..(Len(analysisSteps) - 1) :
                 stepLabel(index) = "Finishing up..." =>
                   /\ index = Len(analysisSteps) - 1
                   /\ currentStep = index
                   /\ p > 80)
  /\ [][progress(elapsedTime') >= progress(elapsedTime)]_vars

\* the analysis has taken longer than the estimate: the bar stands at 95
\* and the last step reads 'Finishing up...'
C12_Witness ==
  /\ mounted
  /\ elapsedTime > estimatedDuration
  /\ progress(elapsedTime) = 95
  /\ stepLabel(LastStepIndex) = "Finishing up..."

\* C13: if the analysis request rejects, returns a non-OK response or its
\* body cannot be parsed, handleImageUpload ends with error set to the
\* failure message, analysisResult still null, isAnalyzing false and the
\* stored analysisCount and lastDonationPrompt unchanged: the failure
\* aborts the analysis and no partial result is shown.
C13_FailureAbortsAnalysis ==
  [][\A k \in 1..MaxUploads :
       (requests[k] \in InFlight /\ requests'[k] \in FailureOutcomes) =>
         /\ error' = FailureMessage
         /\ analysisResult' = NoValue
         /\ isAnalyzing' = FALSE
         /\ localStorage' = localStorage]_vars

\* C16: in any interleaving of uploads, resets and request completions,
\* isAnalyzing is true whenever at least one analysis request is in flight,
\* and false only when none is.
C16_AnalyzingWhileInFlight ==
  (\E k \in 1..MaxUploads : requests[k] \in InFlight) => isAnalyzing

\* C17: in any interleaving of uploads, resets and response arrivals, a
\* non-null analysisResult is the response to the analysis of the image
\* held in the image state: no result while image is null, and no response
\* of an earlier or abandoned upload for a later one.
C17_ResultBelongsToImage ==
  analysisResult # NoValue => analysisResult = image

\* C18: error and analysisResult are never both non-null, after any
\* sequence of uploads, resets, successful and failed responses, a failure
\* raised after the result was stored included.
C18_ErrorOrResultNotBoth ==
  ~(error # NoError /\ analysisResult # NoValue)

\* C14: CameraPanel lists the EXIF camera and lens entries before the five
\* base settings: Camera, Lens and then the five when both are present, the
\* one present first when only one is, exactly the five base settings when
\* neither is; the list has 5 plus the number of present EXIF entries.
C14_ExifEntriesFirst ==
  items # <<>> =>
    LET cam       == cameraOf(camera)
        hasCamera == truthy(cam.camera)
        hasLens   == truthy(cam.lens)
        exif      == (IF hasCamera THEN <<"Camera">> ELSE <<>>)
                     \o (IF hasLens THEN <<"Lens">> ELSE <<>>)
        base      == <<"Focal Length", "Aperture", "ISO",
                       "Shutter Speed", "Sensor Size">>
    IN  /\ Len(items) = 5 + Len(exif)
        /\ [i \in 1..Len(items) |-> items[i].label] = exif \o base
        /\ hasCamera => items[1].value = cam.camera
        /\ hasLens => items[Len(exif)].value = cam.lens

C14_Witness ==
  /\ items # <<>>
  /\ truthy(cameraOf(camera).camera)
  /\ truthy(cameraOf(camera).lens)
  /\ Len(items) = 7

\* C15: generateCurvePath gives the linear path 'M 0 100 L 100 0' when the
\* tone curve is missing or has fewer than 2 points; otherwise the path
\* moves to the first control point with y flipped (100 - y) and then visits
\* every remaining control point once, in input order: one Q segment for
\* the second point, one T segment for each later point.
C15_CurvePathVisitsEveryPoint ==
  curvePath # <<>> =>
    LET points == colorOf(data).toneCurve
        EndOf(seg) == SubSeq(seg.twice, Len(seg.twice) - 1, Len(seg.twice))
    IN  IF ~points.defined \/ Len(points.v) < 2
          THEN curvePath = <<Segment("M", <<0, 200>>), Segment("L", <<200, 0>>)>>
          ELSE /\ Len(curvePath) = Len(points.v)
               /\ curvePath[1].cmd = "M"
               /\ curvePath[2].cmd = "Q" /\ Len(curvePath[2].twice) = 4
               /\ \A i \in 3..Len(curvePath) :
                    curvePath[i].cmd = "T" /\ Len(curvePath[i].twice) = 2
               /\ \A i \in 1..Len(curvePath) :
                    EndOf(curvePath[i]) =
                      <<2 * points.v[i][1], 2 * (100 - points.v[i][2])>>

C15_Witness ==
  /\ curvePath # <<>>
  /\ colorOf(data).toneCurve.defined
  /\ Len(colorOf(data).toneCurve.v) = 3
  /\ curvePath[3].cmd = "T"

\* the pixel is a triple of numbers none of which the tone step cut down to
\* 1: channel c of the grid times the multiplier m is at most 1
NotClampedByTone(c, m) == ~m.nan /\ 20 * c * m.n <= ChanUnit * m.e

\* 0.299*r + 0.587*g + 0.114*b of the triple px (numbers without tint over
\* one denominator e) equals the curve value res.n/(LumUnit*res.d); both
\* sides counted in 1/(1000*ChanUnit) as a whole part and a remainder
LuminanceIs(px, res) ==
  LET e    == px.r.e
      qr   == QR(px.r.a, e)
      qg   == QR(px.g.a, e)
      qb   == QR(px.b.a, e)
      rest == 299 * qr.r + 587 * qg.r + 114 * qb.r
      lum  == [q |-> 299 * qr.q + 587 * qg.q + 114 * qb.q + rest \div e,
               r |-> rest % e]
      crv  == QR(20 * res.n, res.d)
  IN  /\ ~res.nan /\ res.d > 0
      /\ px.g.e = e /\ px.b.e = e
      /\ px.r.t = 0 /\ px.g.t = 0 /\ px.b.t = 0
      /\ lum.q = crv.q
      /\ lum.r * res.d = crv.r * e

\* C19: at every grid point, with input luminance L, and for every tone
\* curve with y in [0,100]: if the tone-curve step clamps no channel at 1,
\* the luminance of the triple after that step equals curve(L); and the
\* shadow and highlight thresholds are tested against L, the luminance of
\* the grid coordinate, not against a luminance taken after the tone curve
\* or the temperature step.
C19_ToneStepKeepsCurveLuminance ==
  Generated =>
    LET s == CurrentSettings
    IN  \A b \in Grid : \A g \in Grid : \A r \in Grid :
          LET L   == luminance(r, g, b)
              m   == curveMultiplier(s.toneCurve, L)
              px  == toneStep(s, r, g, b)
              tmp == temperatureStep(s, px)
          IN  /\ (NotClampedByTone(r, m) /\ NotClampedByTone(g, m)
                    /\ NotClampedByTone(b, m))
                   => LuminanceIs(px, applyToneCurve(s.toneCurve, L))
              /\ DataLinesOf(lutContent)[b * size * size + g * size + r + 1]
                   = DataLine(highlightStep(s, shadowStep(s, tmp, L), L))

====
